---- MODULE Spec2Model ----
(***************************************************************************)
(* A model of pay_loader.py: the multi-source payer loader.                *)
(*                                                                         *)
(*   prepare_dataframe  (str | list | anything else)  -> DataFrame         *)
(*   transform_data     (DataFrame, payer)            -> DataFrame         *)
(*   PayerLoader(payer).load(DataFrame)               -> prints two lines  *)
(*   main               argparse, then the three stages in sequence        *)
(*                                                                         *)
(* Two specifications share the state:                                     *)
(*   Spec    one run of main() from its command line arguments;            *)
(*   FnSpec  one direct call of one of the functions on an arbitrary       *)
(*           argument (the functions are importable on their own).         *)
(*                                                                         *)
(* Strings whose letter case matters (the payer) are sequences of          *)
(* one-character strings, so that str.lower() is computed and not assumed. *)
(* A claim amount is an exact rational num/den: x * 1.10 is modelled as    *)
(* the rational product x * 110/100 (binary floating-point rounding is not *)
(* modelled).  DataFrames live in a heap and are named by reference, so    *)
(* that copying and mutating in place are different things.  The order of  *)
(* the columns of a DataFrame is not modelled.                             *)
(***************************************************************************)
EXTENDS Integers, Sequences, FiniteSets, TLC

VARIABLES
    pc,      \* position of the run: see the actions
    argv,    \* the command line: [payer: [given, val], source: [given, val]]
    fs,      \* the file system: path -> file (paths outside its domain do not exist)
    heap,    \* the DataFrames allocated so far; a reference is an index, 0 is None
    df,      \* the reference held by the local variable df (0: unbound)
    lst,     \* FnSpec: the list handed to prepare_dataframe
    out,     \* lines printed to stdout, in order
    err,     \* the exception that ended the run/call, "none" if none
    trace,   \* history: the stages started, in order, each with its outcome
    reads,   \* history: the paths handed to the file reader, in order
    op,      \* which entry point is running
    arg0     \* history: the DataFrame argument as it was when the call was made

vars == <<pc, argv, fs, heap, df, lst, out, err, trace, reads, op, arg0>>

---------------------------------------------------------------------------
(* Bounds of the model *)

MaxRows == 2

MaxTime == 2

---------------------------------------------------------------------------
(* Strings with letter case: str.lower() *)

UpperAlpha == <<"A","B","C","D","E","F","G","H","I","J","K","L","M",
                "N","O","P","Q","R","S","T","U","V","W","X","Y","Z">>

LowerAlpha == <<"a","b","c","d","e","f","g","h","i","j","k","l","m",
                "n","o","p","q","r","s","t","u","v","w","x","y","z">>

LowerChar(c) ==
    IF \E i \in 1..26 : UpperAlpha[i] = c
    THEN LowerAlpha[CHOOSE i \in 1..26 : UpperAlpha[i] = c]
    ELSE c

Lower(s) == [i \in 1..Len(s) |-> LowerChar(s[i])]

ANTHEM == <<"a","n","t","h","e","m">>

CIGNA == <<"c","i","g","n","a">>

MANUAL == <<"m","a","n","u","a","l">>

---------------------------------------------------------------------------
(* Cells, rows and DataFrames *)

Num(n) == [t |-> "num", num |-> n, den |-> 1, s |-> ""]

Str(x) == [t |-> "str", num |-> 0, den |-> 1, s |-> x]

NaN == [t |-> "nan", num |-> 0, den |-> 1, s |-> ""]

Ts(now) == [t |-> "ts", num |-> now, den |-> 1, s |-> ""]

EmptyFrame == [cols |-> {}, rows |-> <<>>]

\* len(df)
NRows(d) == Len(d.rows)

\* df[c] = column   (adds the column c, or overwrites it)
SetColumn(d, c, column) ==
    [cols |-> d.cols \cup {c},
     rows |-> [i \in 1..Len(d.rows) |->
                  [k \in d.cols \cup {c} |->
                      IF k = c THEN column[i] ELSE d.rows[i][k]]]]

---------------------------------------------------------------------------
(* stdout *)

Line(text, s, n) == [text |-> text, s |-> s, n |-> n]

---------------------------------------------------------------------------
(* The file reader: pd.read_csv(path) *)

\* The one path of the model that may name a file.
CsvPath == "claims.csv"

\* A column of a delimited text file is numeric when every non-empty field of
\* it reads as a number; otherwise the whole column stays text.
ColumnIsNumeric(table, c) ==
    \A i \in 1..Len(table.rows) : table.rows[i][c].t \in {"num", "nan"}

ParseField(f, numeric) ==
    IF f.t = "nan" THEN NaN
    ELSE IF numeric THEN f
    ELSE [f EXCEPT !.t = "str"]

ParseCsv(table) ==
    [cols |-> table.cols,
     rows |-> [i \in 1..Len(table.rows) |->
                  [c \in table.cols |->
                      ParseField(table.rows[i][c], ColumnIsNumeric(table, c))]]]

\* A reader that swallows its errors and yields an empty frame.
ReadCsvLenient(files, path) ==
    IF path \in DOMAIN files /\ files[path].kind = "csv"
    THEN [err |-> "none", data |-> ParseCsv(files[path].table)]
    ELSE [err |-> "none", data |-> EmptyFrame]

ReadCsv(files, path) ==
    IF path \notin DOMAIN files
    THEN [err |-> "FileNotFoundError", data |-> EmptyFrame]
    ELSE IF files[path].kind = "empty"
    THEN [err |-> "EmptyDataError", data |-> EmptyFrame]
    ELSE IF files[path].kind = "malformed"
    THEN [err |-> "ParserError", data |-> EmptyFrame]
    ELSE [err |-> "none", data |-> ParseCsv(files[path].table)]

---------------------------------------------------------------------------
(* prepare_dataframe: dispatch on the type of the argument *)

\* pd.DataFrame(list of dicts): the columns are the union of the keys, a key a
\* row lacks is filled with NaN; the empty list gives the empty frame.
FromRecords(l) ==
    LET cols == UNION {DOMAIN l[i] : i \in 1..Len(l)}
    IN  [cols |-> cols,
         rows |-> [i \in 1..Len(l) |->
                      [c \in cols |-> IF c \in DOMAIN l[i] THEN l[i][c] ELSE NaN]]]

\* prepare_dataframe(str)
PrepareFromStr(h, files, path) ==
    LET r == ReadCsv(files, path)
        printed == <<Line("Reading data from file: ", path, 0)>>
    IN  IF r.err # "none"
        THEN [heap |-> h, ret |-> 0, err |-> r.err, out |-> printed, read |-> <<path>>]
        ELSE [heap |-> Append(h, r.data), ret |-> Len(h) + 1, err |-> "none",
              out |-> printed, read |-> <<path>>]

\* A list resolver that rejects the empty list.
PrepareFromListStrict(h, l) ==
    IF l = <<>>
    THEN [heap |-> h, ret |-> 0, err |-> "ValueError",
          out |-> <<Line("Reading data from manual input list", "", 0)>>, read |-> <<>>]
    ELSE [heap |-> Append(h, FromRecords(l)), ret |-> Len(h) + 1, err |-> "none",
          out |-> <<Line("Reading data from manual input list", "", 0)>>, read |-> <<>>]

\* prepare_dataframe(list)
PrepareFromList(h, l) ==
    [heap |-> Append(h, FromRecords(l)), ret |-> Len(h) + 1, err |-> "none",
     out |-> <<Line("Reading data from manual input list", "", 0)>>, read |-> <<>>]

\* prepare_dataframe(anything else)
PrepareDefault(h) ==
    [heap |-> h, ret |-> 0, err |-> "TypeError", out |-> <<>>, read |-> <<>>]

---------------------------------------------------------------------------
(* transform_data *)

\* No copy: the result is the argument itself.
CopyAlias(h, ref) == [heap |-> h, ref |-> ref]

\* df.copy()
Copy(h, ref) == [heap |-> Append(h, h[ref]), ref |-> Len(h) + 1]

\* The clock read again for every row.
StampPerRow(now, n) == [i \in 1..n |-> Ts(now + i - 1)]

\* The scalar datetime.now(), read once, broadcast over n rows.
StampColumn(now, n) == [i \in 1..n |-> Ts(now)]

\* The payer compared as given, without lower().
PayerRuleCaseSensitive(payer) ==
    IF payer = ANTHEM THEN [apply |-> TRUE, num |-> 110, den |-> 100]
    ELSE IF payer = CIGNA THEN [apply |-> TRUE, num |-> 95, den |-> 100]
    ELSE [apply |-> FALSE, num |-> 1, den |-> 1]

\* The branch taken for a payer and its multiplier: 1.10 = 110/100, 0.95 = 95/100.
PayerRule(payer) ==
    IF Lower(payer) = ANTHEM THEN [apply |-> TRUE, num |-> 110, den |-> 100]
    ELSE IF Lower(payer) = CIGNA THEN [apply |-> TRUE, num |-> 95, den |-> 100]
    ELSE [apply |-> FALSE, num |-> 1, den |-> 1]

\* A lookup that yields a column of NaN for a column the frame lacks.
GetColumnOrNaN(d, c) ==
    IF c \in d.cols
    THEN [err |-> "none", column |-> [i \in 1..Len(d.rows) |-> d.rows[i][c]]]
    ELSE [err |-> "none", column |-> [i \in 1..Len(d.rows) |-> NaN]]

\* df[c]
GetColumn(d, c) ==
    IF c \in d.cols
    THEN [err |-> "none", column |-> [i \in 1..Len(d.rows) |-> d.rows[i][c]]]
    ELSE [err |-> "KeyError", column |-> <<>>]

\* cell * (num/den)
MulCell(x, rule) ==
    IF x.t = "num"
    THEN [x EXCEPT !.num = x.num * rule.num, !.den = x.den * rule.den]
    ELSE x

\* column * float: a text or a timestamp cell cannot be multiplied by a float.
MulColumn(column, rule) ==
    IF \E i \in 1..Len(column) : column[i].t \notin {"num", "nan"}
    THEN [err |-> "TypeError", column |-> <<>>]
    ELSE [err |-> "none", column |-> [i \in 1..Len(column) |-> MulCell(column[i], rule)]]

TransformData(h, ref, payer, now) ==
    LET c == Copy(h, ref)
        stamped == [c.heap EXCEPT ![c.ref] =
                       SetColumn(@, "ingestion_timestamp", StampColumn(now, NRows(@)))]
        rule == PayerRule(payer)
        got == GetColumn(stamped[c.ref], "claim_amount")
        mul == MulColumn(got.column, rule)
    IN  IF ~rule.apply
        THEN [heap |-> stamped, ret |-> c.ref, err |-> "none"]
        ELSE IF got.err # "none"
        THEN [heap |-> stamped, ret |-> 0, err |-> got.err]
        ELSE IF mul.err # "none"
        THEN [heap |-> stamped, ret |-> 0, err |-> mul.err]
        ELSE [heap |-> [stamped EXCEPT ![c.ref] =
                           SetColumn(@, "claim_amount", mul.column)],
              ret |-> c.ref, err |-> "none"]

---------------------------------------------------------------------------
(* PayerLoader *)

\* The payer stored as given.
PayerLoaderInitRaw(payer) == payer

\* PayerLoader.__init__: self.payer
PayerLoaderInit(payer) == Lower(payer)

\* table_name, from self.payer
TableName(selfPayer) ==
    IF selfPayer = ANTHEM THEN "SNOWFLAKE.RAW.ANTHEM_TABLE"
    ELSE IF selfPayer = CIGNA THEN "SNOWFLAKE.RAW.CIGNA_TABLE"
    ELSE "SNOWFLAKE.RAW.GENERIC_CLAIMS"

\* PayerLoader.load: the two lines it prints
PayerLoaderLoad(selfPayer, d) ==
    <<Line("Loading data into ", TableName(selfPayer), 0),
      Line("Total rows: ", "", NRows(d))>>

---------------------------------------------------------------------------
(* main: the command line and the built-in sample *)

\* parser.add_argument("--payer", choices=[...])
Choices == {ANTHEM, CIGNA, MANUAL}

\* manual_data
ManualData ==
    << [member_id |-> Num(1), claim_id |-> Num(1001), claim_amount |-> Num(500),
        service_date |-> Str("2024-01-10"), payer_name |-> Str("manual")],
       [member_id |-> Num(2), claim_id |-> Num(1002), claim_amount |-> Num(800),
        service_date |-> Str("2024-02-15"), payer_name |-> Str("manual")] >>

\* The built-in sample used only when no source path is given.
UseManualUnlessSource(a) == a.payer.val = MANUAL /\ ~a.source.given

\* if payer == "manual"
UseManual(a) == a.payer.val = MANUAL

\* The path required only to be given, the empty path accepted.
SourceMissingNoneOnly(a) == ~a.source.given

\* if not args.source   (None, or the empty string)
SourceMissing(a) == ~a.source.given \/ a.source.val = ""

\* A sequencing that goes from the resolver straight to the loader.
StageAfterSkipping(stage) ==
    IF stage = "resolve" THEN "load"
    ELSE IF stage = "transform" THEN "load"
    ELSE "done"

\* The statement that follows a stage of main that returned.
StageAfter(stage) ==
    IF stage = "resolve" THEN "transform"
    ELSE IF stage = "transform" THEN "load"
    ELSE "done"

---------------------------------------------------------------------------
(* The inputs the model draws from *)

Times == 1..MaxTime

Anthem_Cap == <<"A","n","t","h","e","m">>

ANTHEM_UP == <<"A","N","T","H","E","M">>

Cigna_Cap == <<"C","i","g","n","a">>

CIGNA_UP == <<"C","I","G","N","A">>

Manual_Cap == <<"M","a","n","u","a","l">>

AETNA == <<"a","e","t","n","a">>

\* Payer strings handed to the functions directly.
PayerStrings ==
    {ANTHEM, Anthem_Cap, ANTHEM_UP, CIGNA, Cigna_Cap, CIGNA_UP,
     MANUAL, Manual_Cap, AETNA, <<>>}

\* What may stand after --payer on the command line (or the flag is absent).
PayerArgs ==
    {[given |-> FALSE, val |-> <<>>]} \cup
    {[given |-> TRUE, val |-> p] : p \in {ANTHEM, CIGNA, MANUAL, Anthem_Cap, AETNA}}

SourceArgs ==
    {[given |-> FALSE, val |-> ""]} \cup
    {[given |-> TRUE, val |-> p] : p \in {"", CsvPath, "gone.csv"}}

ColSets ==
    {{"member_id", "claim_amount"},
     {"member_id"},
     {"member_id", "claim_amount", "ingestion_timestamp"}}

\* The fields a column of a file may hold: a number, a word, nothing.
FieldChoices(c) ==
    IF c = "member_id" THEN {Num(1), Num(2)}
    ELSE IF c = "claim_amount" THEN {Num(500), Num(800), Str("abc"), NaN}
    ELSE {Str("2020-01-01")}

AllFields == UNION {FieldChoices(c) : c \in UNION ColSets}

RawRows(cs) == {r \in [cs -> AllFields] : \A c \in cs : r[c] \in FieldChoices(c)}

RawTables ==
    UNION {{[cols |-> cs, rows |-> rs] : rs \in [1..n -> RawRows(cs)]} :
              <<cs, n>> \in ColSets \X (0..MaxRows)}

Files ==
    {[kind |-> "empty", table |-> EmptyFrame],
     [kind |-> "malformed", table |-> EmptyFrame]} \cup
    {[kind |-> "csv", table |-> t] : t \in RawTables}

NoFiles == [p \in {} |-> [kind |-> "empty", table |-> EmptyFrame]]

FileSystems == {NoFiles} \cup {[p \in {CsvPath} |-> f] : f \in Files}

\* Row mappings a caller may put in a list.
SampleDicts == {ManualData[1], ManualData[2], [member_id |-> Num(3)]}

Lists == UNION {[1..n -> SampleDicts] : n \in 0..MaxRows}

Datasets == {ParseCsv(t) : t \in RawTables} \cup {FromRecords(l) : l \in Lists}

---------------------------------------------------------------------------
(* Spec: one run of main() *)

Init ==
    /\ pc = "start"
    /\ argv \in [payer : PayerArgs, source : SourceArgs]
    /\ fs \in FileSystems
    /\ heap = <<>>
    /\ df = 0
    /\ lst = <<>>
    /\ out = <<>>
    /\ err = "none"
    /\ trace = <<>>
    /\ reads = <<>>
    /\ op = "main"
    /\ arg0 = EmptyFrame

\* parser.parse_args(): --payer is required and must be one of the choices
ParseArgs ==
    /\ pc = "start"
    /\ IF argv.payer.given /\ argv.payer.val \in Choices
       THEN pc' = "input" /\ err' = err
       ELSE pc' = "failed" /\ err' = "SystemExit"
    /\ UNCHANGED <<argv, fs, heap, df, lst, out, trace, reads, op, arg0>>

\* payer == "manual": df = prepare_dataframe(manual_data)
ResolveManual ==
    /\ pc = "input"
    /\ UseManual(argv)
    /\ LET r == PrepareFromList(heap, ManualData)
       IN  /\ heap' = r.heap
           /\ out' = out \o r.out
           /\ reads' = reads \o r.read
           /\ trace' = Append(trace, [stage |-> "resolve", ok |-> r.err = "none"])
           /\ IF r.err = "none"
              THEN df' = r.ret /\ err' = err /\ pc' = StageAfter("resolve")
              ELSE df' = df /\ err' = r.err /\ pc' = "failed"
    /\ UNCHANGED <<argv, fs, lst, op, arg0>>

\* else: if not args.source: raise ValueError(...)
RequireSource ==
    /\ pc = "input"
    /\ ~UseManual(argv)
    /\ IF SourceMissing(argv)
       THEN pc' = "failed" /\ err' = "ValueError"
       ELSE pc' = "read" /\ err' = err
    /\ UNCHANGED <<argv, fs, heap, df, lst, out, trace, reads, op, arg0>>

\* df = prepare_dataframe(args.source)
ResolveFile ==
    /\ pc = "read"
    /\ LET r == PrepareFromStr(heap, fs, argv.source.val)
       IN  /\ heap' = r.heap
           /\ out' = out \o r.out
           /\ reads' = reads \o r.read
           /\ trace' = Append(trace, [stage |-> "resolve", ok |-> r.err = "none"])
           /\ IF r.err = "none"
              THEN df' = r.ret /\ err' = err /\ pc' = StageAfter("resolve")
              ELSE df' = df /\ err' = r.err /\ pc' = "failed"
    /\ UNCHANGED <<argv, fs, lst, op, arg0>>

\* df = transform_data(df, payer)
Transform ==
    /\ pc = "transform"
    /\ \E now \in Times :
        LET r == TransformData(heap, df, argv.payer.val, now)
        IN  /\ heap' = r.heap
            /\ trace' = Append(trace, [stage |-> "transform", ok |-> r.err = "none"])
            /\ IF r.err = "none"
               THEN df' = r.ret /\ err' = err /\ pc' = StageAfter("transform")
               ELSE df' = df /\ err' = r.err /\ pc' = "failed"
    /\ UNCHANGED <<argv, fs, lst, out, reads, op, arg0>>

\* loader = PayerLoader(payer); loader.load(df)
Load ==
    /\ pc = "load"
    /\ out' = out \o PayerLoaderLoad(PayerLoaderInit(argv.payer.val), heap[df])
    /\ trace' = Append(trace, [stage |-> "load", ok |-> TRUE])
    /\ pc' = StageAfter("load")
    /\ UNCHANGED <<argv, fs, heap, df, lst, err, reads, op, arg0>>

Next ==
    \/ ParseArgs
    \/ ResolveManual
    \/ RequireSource
    \/ ResolveFile
    \/ Transform
    \/ Load

Spec == Init /\ [][Next]_vars

\* The run is one synchronous call chain: a statement that can run does run.
LiveSpec == Init /\ [][Next]_vars /\ WF_vars(Next)

---------------------------------------------------------------------------
(* FnSpec: one direct call of one function *)

NoArgs == [payer |-> [given |-> FALSE, val |-> <<>>],
           source |-> [given |-> FALSE, val |-> ""]]

FnInit ==
    /\ pc = "call"
    /\ op \in {"transform_data", "load", "prepare_list", "prepare_other"}
    /\ argv \in {[NoArgs EXCEPT !.payer = [given |-> TRUE, val |-> p]] :
                    p \in (IF op \in {"transform_data", "load"}
                           THEN PayerStrings ELSE {<<>>})}
    /\ heap \in (IF op \in {"transform_data", "load"}
                 THEN {<<d>> : d \in Datasets} ELSE {<<>>})
    /\ df = (IF op \in {"transform_data", "load"} THEN 1 ELSE 0)
    /\ lst \in (IF op = "prepare_list" THEN Lists ELSE {<<>>})
    /\ fs = NoFiles
    /\ out = <<>>
    /\ err = "none"
    /\ trace = <<>>
    /\ reads = <<>>
    /\ arg0 = (IF df = 1 THEN heap[1] ELSE EmptyFrame)

\* result = transform_data(df, payer)
CallTransform ==
    /\ pc = "call"
    /\ op = "transform_data"
    /\ \E now \in Times :
        LET r == TransformData(heap, df, argv.payer.val, now)
        IN  /\ heap' = r.heap
            /\ df' = r.ret
            /\ err' = r.err
            /\ pc' = IF r.err = "none" THEN "returned" ELSE "raised"
    /\ UNCHANGED <<argv, fs, lst, out, trace, reads, op, arg0>>

\* PayerLoader(payer).load(df)
CallLoad ==
    /\ pc = "call"
    /\ op = "load"
    /\ out' = out \o PayerLoaderLoad(PayerLoaderInit(argv.payer.val), heap[df])
    /\ pc' = "returned"
    /\ UNCHANGED <<argv, fs, heap, df, lst, err, trace, reads, op, arg0>>

\* result = prepare_dataframe(a list)
CallPrepareList ==
    /\ pc = "call"
    /\ op = "prepare_list"
    /\ LET r == PrepareFromList(heap, lst)
       IN  /\ heap' = r.heap
           /\ df' = r.ret
           /\ err' = r.err
           /\ out' = out \o r.out
           /\ reads' = reads \o r.read
           /\ pc' = IF r.err = "none" THEN "returned" ELSE "raised"
    /\ UNCHANGED <<argv, fs, lst, trace, op, arg0>>

\* result = prepare_dataframe(neither a str nor a list)
CallPrepareOther ==
    /\ pc = "call"
    /\ op = "prepare_other"
    /\ LET r == PrepareDefault(heap)
       IN  /\ heap' = r.heap
           /\ df' = r.ret
           /\ err' = r.err
           /\ out' = out \o r.out
           /\ reads' = reads \o r.read
           /\ pc' = IF r.err = "none" THEN "returned" ELSE "raised"
    /\ UNCHANGED <<argv, fs, lst, trace, op, arg0>>

FnNext ==
    \/ CallTransform
    \/ CallLoad
    \/ CallPrepareList
    \/ CallPrepareOther

FnSpec == FnInit /\ [][FnNext]_vars

---------------------------------------------------------------------------
(* Vocabulary of the properties, stated without the model's own operators *)

\* Two characters that are the same letter, in either case.
SameLetter(a, b) ==
    a = b \/ \E k \in 1..26 : {a, b} = {UpperAlpha[k], LowerAlpha[k]}

\* Two strings that differ at most in letter case.
EqualsIgnoreCase(p, q) ==
    Len(p) = Len(q) /\ \A i \in 1..Len(p) : SameLetter(p[i], q[i])

\* The rational value of cell b is the value of cell a times n/d.
IsProduct(b, a, n, d) ==
    b.t = "num" /\ a.t = "num" /\ b.num * a.den * d = a.num * n * b.den

\* The numeric cell x has the integer value v.
HasValue(x, v) == x.t = "num" /\ x.num = v * x.den

Stages(tr) == {tr[i].stage : i \in 1..Len(tr)}

FailedStage(tr) == \E i \in 1..Len(tr) : ~tr[i].ok

\* The lines of stdout that the loader prints.
LoaderLines ==
    {i \in 1..Len(out) : out[i].text \in {"Loading data into ", "Total rows: "}}

\* The run was started for a file-based payer.
FilePayer == argv.payer.given /\ argv.payer.val \in {ANTHEM, CIGNA}

ManualPayer == argv.payer.given /\ argv.payer.val = MANUAL

Ended == pc \in {"done", "failed"}

\* A direct call of transform_data has come back (returned or raised).
TransformCalled == op = "transform_data" /\ pc # "call"

TransformReturned == op = "transform_data" /\ pc = "returned"

NumericAmounts(d) ==
    /\ "claim_amount" \in d.cols
    /\ \A i \in 1..Len(d.rows) : d.rows[i]["claim_amount"].t = "num"

---------------------------------------------------------------------------
(* C1 *)

\* C1: every run for payer anthem or cigna whose --source is absent or empty
\* fails with the ValueError of main (the spec's MissingArgumentError), and up
\* to and at that failure the resolver was not called, no file was accessed,
\* nothing was transformed and nothing was loaded.
C1_MissingSourceFailsBeforeIO ==
    (FilePayer /\ (~argv.source.given \/ argv.source.val = "")) =>
        /\ pc \in {"start", "input", "failed"}
        /\ (pc = "failed" => err = "ValueError")
        /\ trace = <<>>
        /\ reads = <<>>
        /\ heap = <<>>
        /\ out = <<>>

C1_Witness ==
    /\ FilePayer
    /\ argv.source.given
    /\ argv.source.val = ""
    /\ pc = "failed"
    /\ err = "ValueError"

---------------------------------------------------------------------------
(* C2 *)

MissingPath ==
    /\ FilePayer
    /\ argv.source.given
    /\ argv.source.val # ""
    /\ argv.source.val \notin DOMAIN fs

\* C2: once the resolver or the transformer has failed the run is over, the
\* loader is never run and neither the destination nor the row-count line is
\* printed; a source path that does not exist makes the resolver fail with
\* FileNotFoundError (the spec's DataSourceError), with no transform and no load.
C2_NoLoadAfterFailure ==
    /\ FailedStage(trace) =>
          /\ pc = "failed"
          /\ err # "none"
          /\ "load" \notin Stages(trace)
          /\ LoaderLines = {}
    /\ MissingPath =>
          /\ pc \in {"start", "input", "read", "failed"}
          /\ (pc = "failed" =>
                /\ err = "FileNotFoundError"
                /\ trace = <<[stage |-> "resolve", ok |-> FALSE]>>
                /\ LoaderLines = {})

C2_Witness ==
    /\ MissingPath
    /\ pc = "failed"
    /\ err = "FileNotFoundError"
    /\ reads = <<"gone.csv">>

---------------------------------------------------------------------------
(* C3 *)

\* C3: transform_data on a frame whose claim_amount cells are all numbers
\* returns, row by row in the same order, claim_amount * 1.10 when the payer is
\* "anthem" in any letter case, claim_amount * 0.95 when it is "cigna" in any
\* letter case, and the very same claim_amount for every other payer.
C3_PricingLaw ==
    (TransformCalled /\ NumericAmounts(arg0)) =>
        /\ pc = "returned"
        /\ NRows(heap[df]) = NRows(arg0)
        /\ \A i \in 1..NRows(arg0) :
              LET a == arg0.rows[i]["claim_amount"]
                  b == heap[df].rows[i]["claim_amount"]
              IN  IF EqualsIgnoreCase(argv.payer.val, ANTHEM)
                  THEN IsProduct(b, a, 110, 100)
                  ELSE IF EqualsIgnoreCase(argv.payer.val, CIGNA)
                  THEN IsProduct(b, a, 95, 100)
                  ELSE b = a

C3_Witness ==
    /\ TransformReturned
    /\ argv.payer.val = Anthem_Cap
    /\ NumericAmounts(arg0)
    /\ NRows(arg0) = 2
    /\ arg0.rows[1]["claim_amount"] = Num(500)
    /\ HasValue(heap[df].rows[1]["claim_amount"], 550)
    /\ arg0.rows[2]["claim_amount"] = Num(800)
    /\ HasValue(heap[df].rows[2]["claim_amount"], 880)

---------------------------------------------------------------------------
(* C4 *)

LoadReturned == op = "load" /\ pc = "returned"

\* C4 as stated: the label is RAW.ANTHEM_TABLE, RAW.CIGNA_TABLE or
\* RAW.GENERIC_CLAIMS.
C4_Original ==
    LoadReturned =>
        out[1].s = (IF EqualsIgnoreCase(argv.payer.val, ANTHEM) THEN "RAW.ANTHEM_TABLE"
                    ELSE IF EqualsIgnoreCase(argv.payer.val, CIGNA) THEN "RAW.CIGNA_TABLE"
                    ELSE "RAW.GENERIC_CLAIMS")

\* C4 (amended): the label the loader prints is SNOWFLAKE.RAW.ANTHEM_TABLE when
\* the payer is "anthem" in any letter case, SNOWFLAKE.RAW.CIGNA_TABLE when it is
\* "cigna" in any letter case and SNOWFLAKE.RAW.GENERIC_CLAIMS otherwise, and a
\* loader made for any payer string that differs only in letter case selects
\* the same label.
C4_DestinationLabel ==
    LoadReturned =>
        /\ out[1].text = "Loading data into "
        /\ out[1].s =
              (IF EqualsIgnoreCase(argv.payer.val, ANTHEM) THEN "SNOWFLAKE.RAW.ANTHEM_TABLE"
               ELSE IF EqualsIgnoreCase(argv.payer.val, CIGNA) THEN "SNOWFLAKE.RAW.CIGNA_TABLE"
               ELSE "SNOWFLAKE.RAW.GENERIC_CLAIMS")
        /\ \A q \in PayerStrings :
              EqualsIgnoreCase(q, argv.payer.val) =>
                  PayerLoaderLoad(PayerLoaderInit(q), heap[df])[1].s = out[1].s

C4_Witness ==
    /\ LoadReturned
    /\ argv.payer.val = ANTHEM_UP
    /\ out[1].s = "SNOWFLAKE.RAW.ANTHEM_TABLE"

---------------------------------------------------------------------------
(* C5 *)

\* C5 as stated: for every payer, transform_data on a frame without
\* claim_amount fails and returns nothing.
C5_Original ==
    (TransformCalled /\ "claim_amount" \notin arg0.cols) =>
        (pc = "raised" /\ err # "none" /\ df = 0)

\* C5 (amended): transform_data on a frame without claim_amount fails with
\* KeyError (the spec's MissingColumnError) and returns nothing when the payer
\* is "anthem" or "cigna" in any letter case; for every other payer (manual
\* included) it succeeds and returns the frame with only ingestion_timestamp
\* added.
C5_MissingColumn ==
    (TransformCalled /\ "claim_amount" \notin arg0.cols) =>
        IF \/ EqualsIgnoreCase(argv.payer.val, ANTHEM)
           \/ EqualsIgnoreCase(argv.payer.val, CIGNA)
        THEN pc = "raised" /\ err = "KeyError" /\ df = 0
        ELSE /\ pc = "returned"
             /\ err = "none"
             /\ df # 0
             /\ heap[df].cols = arg0.cols \cup {"ingestion_timestamp"}
             /\ NRows(heap[df]) = NRows(arg0)

C5_Witness ==
    /\ TransformCalled
    /\ "claim_amount" \notin arg0.cols
    /\ NRows(arg0) = 2
    /\ argv.payer.val = Cigna_Cap
    /\ pc = "raised"
    /\ err = "KeyError"

---------------------------------------------------------------------------
(* C6 *)

InputUntouched == heap[1] = arg0

PreservedExcept(skip) ==
    /\ df # 0
    /\ df # 1
    /\ NRows(heap[df]) = NRows(arg0)
    /\ \A c \in arg0.cols \ skip :
          /\ c \in heap[df].cols
          /\ \A i \in 1..NRows(arg0) : heap[df].rows[i][c] = arg0.rows[i][c]

\* C6 as stated: every input column other than claim_amount is preserved as-is.
C6_Original ==
    TransformReturned => (InputUntouched /\ PreservedExcept({"claim_amount"}))

\* C6 (amended): a successful transform_data leaves its argument as it was
\* (same rows, same columns, same cells, no column added) and returns another
\* frame with as many rows, in which every input column other than
\* claim_amount and ingestion_timestamp is preserved as-is (an
\* ingestion_timestamp column of the input is overwritten in the result).
C6_InputNotMutated ==
    TransformReturned =>
        (InputUntouched /\ PreservedExcept({"claim_amount", "ingestion_timestamp"}))

C6_Witness ==
    /\ TransformReturned
    /\ argv.payer.val = ANTHEM
    /\ NRows(arg0) = 2
    /\ "ingestion_timestamp" \notin arg0.cols
    /\ "ingestion_timestamp" \in heap[df].cols
    /\ "member_id" \in arg0.cols
    /\ heap[df].rows[1]["claim_amount"] # arg0.rows[1]["claim_amount"]

---------------------------------------------------------------------------
(* C7 *)

\* C7: after a successful transform_data every row of the result has an
\* ingestion_timestamp, and all rows of the one call carry the same value.
C7_OneTimestampPerCall ==
    TransformReturned =>
        /\ "ingestion_timestamp" \in heap[df].cols
        /\ \A i \in 1..NRows(heap[df]) :
              heap[df].rows[i]["ingestion_timestamp"].t = "ts"
        /\ \A i, j \in 1..NRows(heap[df]) :
              heap[df].rows[i]["ingestion_timestamp"] =
              heap[df].rows[j]["ingestion_timestamp"]

C7_Witness ==
    /\ TransformReturned
    /\ NRows(heap[df]) = 2
    /\ heap[df].rows[1]["ingestion_timestamp"] = Ts(2)
    /\ heap[df].rows[2]["ingestion_timestamp"] = Ts(2)

---------------------------------------------------------------------------
(* C8 *)

EmptyListCalled == op = "prepare_list" /\ lst = <<>> /\ pc # "call"

\* C8 as stated: prepare_dataframe([]) fails and produces no frame.
C8_Original ==
    EmptyListCalled => (pc = "raised" /\ err # "none" /\ df = 0)

\* C8 (amended): prepare_dataframe([]) does not fail: it returns a frame with
\* no rows and no columns.
C8_EmptyListGivesEmptyFrame ==
    EmptyListCalled =>
        /\ pc = "returned"
        /\ err = "none"
        /\ df # 0
        /\ NRows(heap[df]) = 0
        /\ heap[df].cols = {}

C8_Witness ==
    /\ EmptyListCalled
    /\ pc = "returned"
    /\ df = 1
    /\ out = <<Line("Reading data from manual input list", "", 0)>>

---------------------------------------------------------------------------
(* C9 *)

ManualRunResult(label) ==
    /\ pc = "done"
    /\ err = "none"
    /\ reads = <<>>
    /\ NRows(heap[1]) = 2
    /\ HasValue(heap[1].rows[1]["member_id"], 1)
    /\ HasValue(heap[1].rows[2]["member_id"], 2)
    /\ NRows(heap[df]) = 2
    /\ heap[df].rows[1]["claim_amount"] = Num(500)
    /\ heap[df].rows[2]["claim_amount"] = Num(800)
    /\ Len(out) = 3
    /\ out[2] = Line("Loading data into ", label, 0)
    /\ out[3] = Line("Total rows: ", "", 2)

\* C9 as stated: the manual run ends reporting RAW.GENERIC_CLAIMS.
C9_Original ==
    (ManualPayer /\ Ended) => ManualRunResult("RAW.GENERIC_CLAIMS")

\* C9 (amended): every run with payer "manual", with or without a source
\* path, reads no file, resolves the built-in two-row sample, leaves its claim
\* amounts 500 and 800 unchanged, and ends with the loader reporting
\* SNOWFLAKE.RAW.GENERIC_CLAIMS and 2 rows.
C9_ManualRun ==
    ManualPayer =>
        /\ reads = <<>>
        /\ pc # "read"
        /\ (Ended => ManualRunResult("SNOWFLAKE.RAW.GENERIC_CLAIMS"))

C9_Witness ==
    /\ ManualPayer
    /\ argv.source.given
    /\ argv.source.val = CsvPath
    /\ CsvPath \in DOMAIN fs
    /\ pc = "done"

---------------------------------------------------------------------------
(* C10 *)

StageOrder == <<"resolve", "transform", "load">>

\* The stages started so far are a prefix of resolver, transformer, loader,
\* and every stage but the last started one has succeeded.
StagesInOrder ==
    /\ Len(trace) <= 3
    /\ \A i \in 1..Len(trace) :
          /\ trace[i].stage = StageOrder[i]
          /\ (i < Len(trace) => trace[i].ok)
    /\ (pc = "done" => (Len(trace) = 3 /\ \A i \in 1..3 : trace[i].ok))
    /\ (pc = "transform" => Len(trace) = 1 /\ trace[1].ok)
    /\ (pc = "load" => Len(trace) = 2 /\ trace[2].ok)

\* C10: every run of main ends, in success or in failure, and along it the
\* stages run only in the order resolver, transformer, loader, each at most
\* once, none before the one before it has succeeded, none repeated or retried.
C10_TerminatesInOrder == []StagesInOrder /\ <>Ended

C10_Witness ==
    /\ pc = "done"
    /\ Len(trace) = 3
    /\ FilePayer

====
